---- MODULE Spec2Model ----
(***************************************************************************)
(* Model of the ingestion scripts under src/scripts:                       *)
(*   omdb_to_csv.py       stdin ids -> OMDb detail        -> csv rows       *)
(*   tmdb_id_from_imdb.py stdin ids -> TMDb find          -> csv rows       *)
(*   tmdb_to_csv.py       stdin ids -> TMDb find + detail -> csv rows       *)
(*   tiago.py             TMDb popular pages -> TMDb + OMDb -> json files   *)
(* One run of one script is one behaviour.  The environment (process       *)
(* environment variables, the lines on stdin, the upstream answers) is      *)
(* chosen nondeterministically; everything else follows the code.          *)
(*                                                                         *)
(* Text is a sequence of pieces: a piece is one whitespace character or a   *)
(* run of non-whitespace characters.  A python value that may be None, a    *)
(* str or an int is a record [t, s, n].                                     *)
(***************************************************************************)
EXTENDS Integers, Sequences, FiniteSets, TLC

VARIABLES
    script,         \* which script this run executes
    env,            \* os.environ: OMDB_API_KEY, TMDB_API_KEY
    stdin,          \* the lines sys.stdin yields
    pc,             \* position of the run
    OMDB_API_KEY,   \* module-level names of the script
    TMDB_API_KEY,
    iterations,     \* global request counter of the tabular scripts
    out,            \* rows written to sys.stdout through csv.writer
    ids,            \* the list built from stdin in main
    idx,            \* position of the for loop in ids (1-based)
    real_id,        \* tmdb_to_csv.main: the id the resolver returned
    reqs,           \* every outbound request with the answer it got
    page,           \* tiago: loop variable of the page loop
    results,        \* tiago: data['results'] of the current page
    midx,           \* tiago: position of the movie loop in results
    tmdb_details,   \* tiago: detail payload of the current movie
    movie_counter,  \* tiago: number of the next file
    folder,         \* tiago: does SAVE_FOLDER exist
    files,          \* tiago: file number -> content, under SAVE_FOLDER
    written,        \* tiago: the file numbers this run wrote, in order
    summary,        \* tiago: the number of movies the final message reports
    pauses,         \* number of time.sleep calls so far
    run,            \* 1: first run of the script, 2: a second run after it
    prev,           \* what the first run left: its output and its requests
    genre_str,      \* analyze_genres: the cell extract_genres is applied to
    genres,         \* analyze_genres: what extract_genres returned for it
    table,          \* dataset_com_cluster.csv: budget and revenue cell of each row
    roi,            \* the ROI derived for each row of the table
    roi_mean,       \* the ROI average, and the rows that entered it
    profits         \* the profit computed for each row, up to a row that raised

vars == <<script, env, stdin, pc, OMDB_API_KEY, TMDB_API_KEY, iterations, out,
          ids, idx, real_id, reqs, page, results, midx, tmdb_details,
          movie_counter, folder, files, written, summary, pauses, run, prev, genre_str,
          genres,
          table, roi, roi_mean, profits>>

rerunVars == <<run, prev>>
genreVars == <<genre_str, genres>>
roiVars == <<table, roi, roi_mean>>
analysisVars == <<genreVars, roiVars, profits>>
tabVars == <<out, ids, idx, real_id, iterations>>
tiagoVars == <<page, results, midx, tmdb_details, movie_counter, folder, files,
               written, summary, pauses>>

-----------------------------------------------------------------------------
(* Bounds and sample values                                                *)

MaxLines == 3

\* Longest genre cell drawn freely from GenreChars
MaxGenreLen == 3

\* Most rows of a dataset
MaxRows == 2

\* tiago.py:10 sets pages_to_fetch = 100; the model runs the same loop over
\* a smaller page budget.
pages_to_fetch == 2

Scripts == {"omdb_to_csv", "tmdb_id_from_imdb", "tmdb_to_csv", "tiago"}
TabularScripts == {"omdb_to_csv", "tmdb_id_from_imdb", "tmdb_to_csv"}

Unset == "<unset>"          \* os.getenv of a variable that is not set: None
KeyValues == {Unset, "", "key"}

Whitespace == {" ", "\t", "\n"}

\* Lines sys.stdin can yield.  Only the last line of a stream can lack "\n".
Lines == { <<"tt0111161", "\n">>,
           <<" ", "tt0068646", "\t", "\n">>,
           <<"\n">>,
           <<" ", "\n">>,
           <<"tt0111161">> }

RECURSIVE SeqsUpTo(_, _)
SeqsUpTo(S, n) ==
    IF n = 0 THEN {<<>>}
    ELSE LET shorter == SeqsUpTo(S, n - 1)
         IN  shorter \cup {Append(q, x) : q \in {r \in shorter : Len(r) = n - 1}, x \in S}

Inputs == {in \in SeqsUpTo(Lines, MaxLines) :
              \A i \in 1..Len(in) : i < Len(in) => in[i][Len(in[i])] = "\n"}

\* Answers of the upstreams: every request gets a response, and a 200 response
\* carries a JSON object of the endpoint's shape.  One record shape for every
\* endpoint:
\*   status   HTTP status
\*   results  ids of movie_results (find) or of results (popular), in order
\*   id       'id' of a detail payload of catalog A
\*   imdb_id  'imdb_id' of a detail payload of catalog A (<<>>: null or "")
\*   Response 'Response' of a payload of catalog B
NoBody == [results |-> <<>>, id |-> 0, imdb_id |-> <<>>, Response |-> ""]
Resp(st, b) == [status |-> st, body |-> b]

Failure == Resp(404, NoBody)

FindAnswers ==
    {Failure} \cup
    {Resp(200, [NoBody EXCEPT !.results = r]) :
        r \in {<<>>, <<278>>, <<550, 278>>, <<278, 550, 13>>}}

OmdbAnswers(imdb_id) ==
    {Failure,
     Resp(200, [NoBody EXCEPT !.Response = "True", !.imdb_id = imdb_id]),
     Resp(200, [NoBody EXCEPT !.Response = "False"])}

MovieAnswers(movie_id) ==
    {Failure} \cup
    {Resp(200, [NoBody EXCEPT !.id = movie_id, !.imdb_id = i]) :
        i \in {<<>>, <<"tt0111161">>}}

PopularAnswers ==
    {Failure} \cup
    {Resp(200, [NoBody EXCEPT !.results = r]) : r \in {<<>>, <<278>>, <<278, 550>>}}

-----------------------------------------------------------------------------
(* Python values                                                           *)

PyNone == [t |-> "None", s |-> <<>>, n |-> 0]
PyStr(x) == [t |-> "str", s |-> x, n |-> 0]
PyInt(k) == [t |-> "int", s |-> <<>>, n |-> k]

\* bool(v)
Truthy(v) ==
    CASE v.t = "None" -> FALSE
      [] v.t = "str" -> v.s # <<>>
      [] v.t = "int" -> v.n # 0

\* An optional dict: what response.json() / None is to `if not data`.
NoData == [none |-> TRUE, body |-> NoBody]
Data(b) == [none |-> FALSE, body |-> b]

-----------------------------------------------------------------------------
(* Text and rows                                                           *)

RECURSIVE lstrip(_)
lstrip(line) ==
    IF line # <<>> /\ Head(line) \in Whitespace THEN lstrip(Tail(line)) ELSE line

RECURSIVE rstrip(_)
rstrip(line) ==
    IF line # <<>> /\ line[Len(line)] \in Whitespace
    THEN rstrip(SubSeq(line, 1, Len(line) - 1))
    ELSE line

\* A strip that forgets the right end
lstrip_only(line) == lstrip(line)

\* str.strip()
strip(line) == rstrip(lstrip(line))

\* [line.strip() for line in sys.stdin if line.strip()]
RECURSIVE read_ids(_)
read_ids(in) ==
    IF in = <<>> THEN <<>>
    ELSE IF strip(Head(in)) # <<>>
         THEN <<strip(Head(in))>> \o read_ids(Tail(in))
         ELSE read_ids(Tail(in))

\* str(n) for n >= 0, as csv.writer turns a number into text
Digit(d) == CASE d = 0 -> "0" [] d = 1 -> "1" [] d = 2 -> "2" [] d = 3 -> "3"
              [] d = 4 -> "4" [] d = 5 -> "5" [] d = 6 -> "6" [] d = 7 -> "7"
              [] d = 8 -> "8" [] d = 9 -> "9"
RECURSIVE str(_)
str(n) == IF n < 10 THEN <<Digit(n)>> ELSE Append(str(n \div 10), Digit(n % 10))

\* A csv cell: plain text, or the text json.dumps gives for a payload.
TextCell(t) == [k |-> "text", text |-> t, json |-> NoBody]
JsonCell(b) == [k |-> "json", text |-> <<>>, json |-> b]
\* How csv.writer writes a python value
ValueCell(v) == IF v.t = "int" THEN TextCell(str(v.n)) ELSE TextCell(v.s)

\* A first row that is not the header
no_header(s) == <<>>

\* The row of the first writer.writerow of main
header(s) ==
    IF s = "tmdb_id_from_imdb"
    THEN <<TextCell(<<"imdb_id">>), TextCell(<<"tmdb_id">>)>>
    ELSE <<TextCell(<<"id">>), TextCell(<<"response">>)>>

-----------------------------------------------------------------------------
(* Module level of the tabular scripts: the credential                     *)

\* The environment variable each script reads its API key from
\* (tmdb_to_csv.py reads OMDB_API_KEY into its TMDB_API_KEY).
getenv_name(s) ==
    CASE s = "omdb_to_csv" -> "OMDB_API_KEY"
      [] s = "tmdb_id_from_imdb" -> "TMDB_API_KEY"
      [] s = "tmdb_to_csv" -> "OMDB_API_KEY"

\* `not KEY` for a key that is None or a str
not_key(k) == k = Unset \/ k = ""

\* The upstream of a second run: the request made at the same place of the run
\* as in the first run gets the answer it got then
SameAnswer(endpoint, arg, r) ==
    (/\ run = 2
     /\ Len(reqs) < Len(prev.reqs)
     /\ prev.reqs[Len(reqs) + 1].endpoint = endpoint
     /\ prev.reqs[Len(reqs) + 1].arg = arg)
    => r = prev.reqs[Len(reqs) + 1].answer

Req(host, endpoint, arg, key, item, pg, answer) ==
    [host |-> host, endpoint |-> endpoint, arg |-> arg, key |-> key,
     item |-> item, page |-> pg, answer |-> answer]

\* Module level of omdb_to_csv.py, tmdb_id_from_imdb.py, tmdb_to_csv.py
Import ==
    /\ pc = "import"
    /\ script \in TabularScripts
    /\ LET k == env[getenv_name(script)]
       IN  /\ IF script = "omdb_to_csv"
              THEN OMDB_API_KEY' = k /\ UNCHANGED TMDB_API_KEY
              ELSE TMDB_API_KEY' = k /\ UNCHANGED OMDB_API_KEY
           /\ pc' = IF not_key(k) THEN "ValueError" ELSE "main"
    /\ UNCHANGED <<analysisVars, rerunVars, script, env, stdin, reqs, tabVars, tiagoVars>>

-----------------------------------------------------------------------------
(* main of the tabular scripts                                             *)

\* A main that leaves the header out when an earlier run left output
WriteHeader_resuming ==
    /\ pc = "main"
    /\ out' = IF prev.out # <<>> THEN out ELSE out \o <<header(script)>>
    /\ pc' = "read"
    /\ UNCHANGED <<analysisVars, rerunVars, script, env, stdin, OMDB_API_KEY, TMDB_API_KEY, iterations,
                   ids, idx, real_id, reqs, tiagoVars>>

\* writer.writerow([...header...]): the first statement of main
WriteHeader ==
    /\ pc = "main"
    /\ out' = out \o <<header(script)>>
    /\ pc' = "read"
    /\ UNCHANGED <<analysisVars, rerunVars, script, env, stdin, OMDB_API_KEY, TMDB_API_KEY, iterations,
                   ids, idx, real_id, reqs, tiagoVars>>

\* ids = [line.strip() for line in sys.stdin if line.strip()]
ReadStdin ==
    /\ pc = "read"
    /\ ids' = read_ids(stdin)
    /\ idx' = 1
    /\ pc' = "loop"
    /\ UNCHANGED <<analysisVars, rerunVars, script, env, stdin, OMDB_API_KEY, TMDB_API_KEY, iterations,
                   out, real_id, reqs, tiagoVars>>

\* The for loop of main is exhausted: main returns
LoopEnd ==
    /\ pc = "loop"
    /\ idx > Len(ids)
    /\ pc' = "done"
    /\ UNCHANGED <<analysisVars, rerunVars, script, env, stdin, OMDB_API_KEY, TMDB_API_KEY, reqs,
                   tabVars, tiagoVars>>

(* omdb_to_csv.py *)

\* get_movie_details_omdb: response.json() on 200, None otherwise
get_movie_details_omdb(r) == IF r.status = 200 THEN Data(r.body) ELSE NoData

omdb_row(id_value, data) == <<TextCell(id_value), JsonCell(data.body)>>

\* A loop body that skips a failed item instead of returning
omdb_main_step_continue(data) == IF data.none THEN "continue" ELSE "write"

\* What one pass of the loop body of omdb_to_csv.main does with `data`
omdb_main_step(data) == IF data.none THEN "return" ELSE "write"

OmdbIteration ==
    /\ pc = "loop"
    /\ script = "omdb_to_csv"
    /\ idx <= Len(ids)
    /\ \E r \in OmdbAnswers(ids[idx]) :
          LET data == get_movie_details_omdb(r)
              step == omdb_main_step(data)
          IN  /\ SameAnswer("detail", PyStr(ids[idx]), r)
              /\ iterations' = iterations + 1
              /\ reqs' = Append(reqs, Req("omdb", "detail", PyStr(ids[idx]),
                                          OMDB_API_KEY, idx, 0, r))
              /\ out' = IF step = "write" THEN Append(out, omdb_row(ids[idx], data))
                        ELSE out
              /\ pc' = IF step = "return" THEN "returned" ELSE "loop"
              /\ idx' = IF step = "return" THEN idx ELSE idx + 1
    /\ UNCHANGED <<analysisVars, rerunVars, script, env, stdin, OMDB_API_KEY, TMDB_API_KEY, ids, real_id,
                   tiagoVars>>

(* tmdb_id_from_imdb.py *)

\* A resolver that takes the last candidate
get_movie_id_from_imdb_last(r) ==
    IF r.status = 200
    THEN IF Len(r.body.results) < 1
         THEN PyStr(<<>>)
         ELSE PyInt(r.body.results[Len(r.body.results)])
    ELSE PyNone

\* A resolver with no value of its own for an empty movie_results
get_movie_id_from_imdb_none_on_empty(r) ==
    IF r.status = 200 /\ Len(r.body.results) >= 1
    THEN PyInt(r.body.results[1])
    ELSE PyNone

\* get_movie_id_from_imdb of tmdb_id_from_imdb.py: the id of the first entry
\* of movie_results, '' when there is none, None when the status is not 200
get_movie_id_from_imdb(r) ==
    IF r.status = 200
    THEN IF Len(r.body.results) < 1
         THEN PyStr(<<>>)
         ELSE PyInt(r.body.results[1])
    ELSE PyNone

\* A loop body that tests `not tmdb_id`, as tmdb_to_csv.main does
find_main_step_falsy_returns(tmdb_id) == IF ~Truthy(tmdb_id) THEN "return" ELSE "write"

\* A loop body without the '' test: a row for every answer that is not None
find_main_step_no_skip(tmdb_id) == IF tmdb_id = PyNone THEN "return" ELSE "write"

\* What one pass of the loop body of tmdb_id_from_imdb.main does with tmdb_id
find_main_step(tmdb_id) ==
    IF tmdb_id = PyNone THEN "return"
    ELSE IF tmdb_id = PyStr(<<>>) THEN "continue"
    ELSE "write"

find_row(imdb_id_value, tmdb_id) == <<TextCell(imdb_id_value), ValueCell(tmdb_id)>>

FindIteration ==
    /\ pc = "loop"
    /\ script = "tmdb_id_from_imdb"
    /\ idx <= Len(ids)
    /\ \E r \in FindAnswers :
          LET tmdb_id == get_movie_id_from_imdb(r)
              step == find_main_step(tmdb_id)
          IN  /\ SameAnswer("find", PyStr(ids[idx]), r)
              /\ iterations' = iterations + 1
              /\ reqs' = Append(reqs, Req("tmdb", "find", PyStr(ids[idx]),
                                          TMDB_API_KEY, idx, 0, r))
              /\ out' = IF step = "write" THEN Append(out, find_row(ids[idx], tmdb_id))
                        ELSE out
              /\ pc' = IF step = "return" THEN "returned" ELSE "loop"
              /\ idx' = IF step = "return" THEN idx ELSE idx + 1
    /\ UNCHANGED <<analysisVars, rerunVars, script, env, stdin, OMDB_API_KEY, TMDB_API_KEY, ids, real_id,
                   tiagoVars>>

(* tmdb_to_csv.py *)

Return(v) == [raised |-> "", value |-> v]
Raise(e) == [raised |-> e, value |-> PyNone]

\* get_movie_id_from_imdb of tmdb_to_csv.py: data['movie_results'][0]['id']
\* with no length check, None when the status is not 200
get_movie_id_from_imdb_tmdb_to_csv(r) ==
    IF r.status = 200
    THEN IF Len(r.body.results) = 0
         THEN Raise("IndexError")
         ELSE Return(PyInt(r.body.results[1]))
    ELSE Return(PyNone)

\* get_movie_details_tmdb: response.json() on 200, None otherwise
get_movie_details_tmdb(r) == IF r.status = 200 THEN Data(r.body) ELSE NoData

\* The names bound when line 60 of tmdb_to_csv.py is evaluated: the module's
\* globals and the locals of main
tmdb_to_csv_names ==
    {"requests", "csv", "sys", "json", "os", "TMDB_BASE_URL", "TMDB_API_KEY",
     "pages_to_fetch", "movie_counter", "iterations", "get_movie_id_from_imdb",
     "get_movie_details_tmdb", "main",
     "writer", "imdb_ids", "imdb_id_value", "real_id", "data"}

\* [id_value, json.dumps(data)] of tmdb_to_csv.main
tmdb_row(names, id_value, data) ==
    IF "id_value" \in names
    THEN Return(<<TextCell(id_value), JsonCell(data.body)>>)
    ELSE Raise("NameError")

\* real_id = get_movie_id_from_imdb(imdb_id_value); if not real_id: return
TmdbResolve ==
    /\ pc = "loop"
    /\ script = "tmdb_to_csv"
    /\ idx <= Len(ids)
    /\ \E r \in FindAnswers :
          LET got == get_movie_id_from_imdb_tmdb_to_csv(r)
          IN  /\ SameAnswer("find", PyStr(ids[idx]), r)
              /\ iterations' = iterations + 1
              /\ reqs' = Append(reqs, Req("tmdb", "find", PyStr(ids[idx]),
                                          TMDB_API_KEY, idx, 0, r))
              /\ IF got.raised # ""
                 THEN pc' = got.raised /\ UNCHANGED real_id
                 ELSE IF ~Truthy(got.value)
                      THEN pc' = "returned" /\ UNCHANGED real_id
                      ELSE pc' = "detail" /\ real_id' = got.value
    /\ UNCHANGED <<analysisVars, rerunVars, script, env, stdin, OMDB_API_KEY, TMDB_API_KEY, out, ids, idx,
                   tiagoVars>>

\* data = get_movie_details_tmdb(real_id); if not data: return;
\* writer.writerow([id_value, json.dumps(data)])
TmdbDetail ==
    /\ pc = "detail"
    /\ script = "tmdb_to_csv"
    /\ \E r \in MovieAnswers(real_id.n) :
          LET data == get_movie_details_tmdb(r)
              row == tmdb_row(tmdb_to_csv_names, ids[idx], data)
          IN  /\ SameAnswer("movie", real_id, r)
              /\ iterations' = iterations + 1
              /\ reqs' = Append(reqs, Req("tmdb", "movie", real_id,
                                          TMDB_API_KEY, idx, 0, r))
              /\ IF data.none
                 THEN pc' = "returned" /\ UNCHANGED <<out, idx>>
                 ELSE IF row.raised # ""
                      THEN pc' = row.raised /\ UNCHANGED <<out, idx>>
                      ELSE /\ out' = Append(out, row.value)
                           /\ idx' = idx + 1
                           /\ pc' = "loop"
    /\ UNCHANGED <<analysisVars, rerunVars, script, env, stdin, OMDB_API_KEY, TMDB_API_KEY, ids, real_id,
                   tiagoVars>>

-----------------------------------------------------------------------------
(* tiago.py                                                                *)

\* get_movie_details_tmdb / get_movie_details_omdb of tiago.py
tiago_get_movie_details_tmdb(r) == IF r.status = 200 THEN Data(r.body) ELSE NoData
tiago_get_movie_details_omdb(r) == IF r.status = 200 THEN Data(r.body) ELSE NoData

\* A movie loop that goes on to OMDb without an imdb_id
tiago_tmdb_skip_only_failed(details) == details.none

\* `if not tmdb_details: continue` and `if not imdb_id: ... continue`
tiago_tmdb_skip(details) == details.none \/ details.body.imdb_id = <<>>

\* A movie loop that does not look at 'Response'
tiago_omdb_skip_only_failed(omdb_details) == omdb_details.none

\* `if not omdb_details or omdb_details.get('Response') == 'False': continue`
tiago_omdb_skip(omdb_details) ==
    omdb_details.none \/ omdb_details.body.Response = "False"

\* A counter that is never advanced
tiago_same_counter(c) == c

\* movie_counter += 1
tiago_next_counter(c) == c + 1

\* A page loop that leaves out every other page
tiago_skip_page(p) == p + 2

\* A page loop that does not advance
tiago_same_page(p) == p

\* The next value of `for page in range(1, pages_to_fetch + 1)`
tiago_next_page(p) == p + 1

\* combined_data, as json.dump writes it to the file
\* A sink that leaves a file alone when one of that name exists
dump_unless_exists(fs, k, data) ==
    [j \in DOMAIN fs \cup {k} |-> IF j = k /\ k \notin DOMAIN fs THEN data ELSE fs[j]]

\* with open(filepath, 'w') as f: json.dump(combined_data, f): movie_k.json is
\* created, or truncated and rewritten when it exists
dump(fs, k, data) ==
    [j \in DOMAIN fs \cup {k} |-> IF j = k THEN data ELSE fs[j]]

combined_data(tmdb, omdb) == [tmdb |-> tmdb, omdb |-> omdb]

\* Module level of tiago.py up to the page loop: the keys are the literals
\* of lines 6-7, os.makedirs(SAVE_FOLDER, exist_ok=True)
TiagoImport ==
    /\ pc = "import"
    /\ script = "tiago"
    /\ TMDB_API_KEY' = ""
    /\ OMDB_API_KEY' = ""
    /\ folder' = TRUE
    /\ page' = 1
    /\ pc' = "page"
    /\ UNCHANGED <<analysisVars, rerunVars, script, env, stdin, reqs, tabVars, results, midx, tmdb_details,
                   movie_counter, files, written, summary, pauses>>

\* `continue`, or the end of the body of the movie loop: the next movie of
\* the page, or the next page when the page has no more
NextMovie ==
    IF midx + 1 > Len(results)
    THEN /\ page' = tiago_next_page(page)
         /\ pc' = "page"
         /\ UNCHANGED midx
    ELSE /\ midx' = midx + 1
         /\ pc' = "movie"
         /\ UNCHANGED page

\* One pass of the page loop up to the movie loop: the popular request
TiagoPage ==
    /\ pc = "page"
    /\ script = "tiago"
    /\ page <= pages_to_fetch
    /\ \E r \in PopularAnswers :
          /\ reqs' = Append(reqs, Req("tmdb", "popular", PyInt(page),
                                      TMDB_API_KEY, 0, page, r))
          /\ IF r.status = 200 /\ r.body.results # <<>>
             THEN /\ results' = r.body.results
                  /\ midx' = 1
                  /\ pc' = "movie"
                  /\ UNCHANGED page
             ELSE /\ results' = IF r.status = 200 THEN r.body.results ELSE results
                  /\ page' = tiago_next_page(page)
                  /\ pc' = "page"
                  /\ UNCHANGED midx
    /\ UNCHANGED <<analysisVars, rerunVars, script, env, stdin, OMDB_API_KEY, TMDB_API_KEY, tabVars,
                   tmdb_details, movie_counter, folder, files, written, summary, pauses>>

\* The movie loop body up to the OMDb request: lines 42-51
TiagoMovie ==
    /\ pc = "movie"
    /\ script = "tiago"
    /\ \E r \in MovieAnswers(results[midx]) :
          LET details == tiago_get_movie_details_tmdb(r)
          IN  /\ reqs' = Append(reqs, Req("tmdb", "movie", PyInt(results[midx]),
                                          TMDB_API_KEY, midx, page, r))
              /\ IF tiago_tmdb_skip(details)
                 THEN NextMovie /\ UNCHANGED tmdb_details
                 ELSE /\ tmdb_details' = details.body
                      /\ pc' = "omdb"
                      /\ UNCHANGED <<page, midx>>
    /\ UNCHANGED <<analysisVars, rerunVars, script, env, stdin, OMDB_API_KEY, TMDB_API_KEY, tabVars,
                   results, movie_counter, folder, files, written, summary, pauses>>

\* The movie loop body from the OMDb request on: lines 53-72
TiagoOmdb ==
    /\ pc = "omdb"
    /\ script = "tiago"
    /\ \E r \in OmdbAnswers(tmdb_details.imdb_id) :
          LET omdb_details == tiago_get_movie_details_omdb(r)
          IN  /\ reqs' = Append(reqs, Req("omdb", "detail", PyStr(tmdb_details.imdb_id),
                                          OMDB_API_KEY, midx, page, r))
              /\ IF tiago_omdb_skip(omdb_details)
                 THEN UNCHANGED <<movie_counter, files, written, pauses>>
                 ELSE /\ files' = dump(files, movie_counter,
                                       combined_data(tmdb_details, omdb_details.body))
                      /\ written' = Append(written, movie_counter)
                      /\ movie_counter' = tiago_next_counter(movie_counter)
                      /\ pauses' = pauses + 1
              /\ NextMovie
    /\ UNCHANGED <<analysisVars, rerunVars, script, env, stdin, OMDB_API_KEY, TMDB_API_KEY, tabVars,
                   results, tmdb_details, folder, summary>>

\* A summary that reports the counter itself
collected_counter(c) == c

\* {movie_counter-1} in the final message
collected(c) == c - 1

\* No final message printed yet
Unreported == -1

\* The page loop is exhausted: the final print
TiagoDone ==
    /\ pc = "page"
    /\ script = "tiago"
    /\ page > pages_to_fetch
    /\ summary' = collected(movie_counter)
    /\ pc' = "done"
    /\ UNCHANGED <<analysisVars, rerunVars, script, env, stdin, OMDB_API_KEY, TMDB_API_KEY, reqs, tabVars,
                   page, results, midx, tmdb_details, movie_counter, folder, files,
                   written, pauses>>

-----------------------------------------------------------------------------
(* The runs                                                                *)

\* A tabular script is started again after its first run has ended: a new
\* process, with the same environment and the same lines on stdin.  Nothing
\* of the first process is left but what it wrote.
Rerun ==
    /\ run = 1
    /\ script \in TabularScripts
    /\ pc \in {"done", "returned", "ValueError", "IndexError", "NameError"}
    /\ run' = 2
    /\ prev' = [out |-> out, reqs |-> reqs, files |-> files]
    /\ pc' = "import"
    /\ OMDB_API_KEY' = Unset
    /\ TMDB_API_KEY' = Unset
    /\ iterations' = 0
    /\ out' = <<>>
    /\ ids' = <<>>
    /\ idx' = 1
    /\ real_id' = PyNone
    /\ reqs' = <<>>
    /\ UNCHANGED <<analysisVars, script, env, stdin, tiagoVars>>

\* tiago.py is started again after its first run has printed its summary: a
\* new process, whose names are not yet bound.  The folder and the files of
\* the first run are still on disk.
TiagoRerun ==
    /\ run = 1
    /\ script = "tiago"
    /\ pc = "done"
    /\ run' = 2
    /\ prev' = [out |-> <<>>, reqs |-> <<>>, files |-> files]
    /\ pc' = "import"
    /\ OMDB_API_KEY' = Unset
    /\ TMDB_API_KEY' = Unset
    /\ reqs' = <<>>
    /\ page' = 1
    /\ results' = <<>>
    /\ midx' = 1
    /\ tmdb_details' = NoBody
    /\ movie_counter' = 1
    /\ written' = <<>>
    /\ summary' = Unreported
    /\ pauses' = 0
    /\ UNCHANGED <<analysisVars, script, env, stdin, tabVars, folder, files>>

-----------------------------------------------------------------------------
(* cluster_analysis_script.py: analyze_genres                              *)

\* A cell of the genres column as pandas hands it to extract_genres: NaN for
\* a missing value, a str, or a number.  A str is a sequence of characters;
\* a genre name stands for its run of letters.
NaN == [t |-> "nan", s |-> <<>>]
Text(s) == [t |-> "str", s |-> s]
Number == [t |-> "float", s |-> <<>>]

GenreChars == {"[", "]", "'", ",", " ", "Action", "Drama"}

GenreSamples ==
    { <<"[", "'", "Action", "'", ",", " ", "'", "Drama", "'", "]">>,
      <<"[", "'", "Drama", "'", "]">>,
      <<"[", "'", " ", "Action", "'", ",", " ", "'", "Drama", " ", "'", "]">>,
      <<"Action", ",", " ", "Drama">> }

GenreCells ==
    {NaN, Number} \cup {Text(s) : s \in SeqsUpTo(GenreChars, MaxGenreLen) \cup GenreSamples}

\* What a call returns: a Python list, here of str
Unreturned == [t |-> "unreturned", v |-> <<>>]
List(v) == [t |-> "list", v |-> v]

startswith(s, prefix) ==
    Len(s) >= Len(prefix) /\ SubSeq(s, 1, Len(prefix)) = prefix

\* str.replace(old, new): every occurrence of old, left to right, none
\* overlapping
RECURSIVE replace(_, _, _)
replace(s, old, new) ==
    IF s = <<>> THEN <<>>
    ELSE IF startswith(s, old)
         THEN new \o replace(SubSeq(s, Len(old) + 1, Len(s)), old, new)
         ELSE <<Head(s)>> \o replace(Tail(s), old, new)

\* str.split(sep): the pieces between the occurrences of sep, empty ones kept
RECURSIVE split(_, _)
split(s, sep) ==
    IF s = <<>> THEN << <<>> >>
    ELSE IF startswith(s, sep)
         THEN << <<>> >> \o split(SubSeq(s, Len(sep) + 1, Len(s)), sep)
         ELSE LET rest == split(Tail(s), sep)
              IN  << <<Head(s)>> \o rest[1] >> \o Tail(rest)

strip_all(pieces) == [i \in 1..Len(pieces) |-> strip(pieces[i])]

extract_genres(genre_str_) ==
    IF genre_str_.t = "nan" THEN List(<<>>)                  \* pd.isna
    ELSE IF genre_str_.t # "str" THEN List(<<>>)             \* except: no .replace
    ELSE LET a == replace(genre_str_.s, <<"[", "'">>, <<>>)
             b == replace(a, <<"'", "]">>, <<>>)
             genres_ == split(b, <<"'", ",", " ", "'">>)
         IN  List(strip_all(genres_))

\* df['genres'].apply(extract_genres), one cell
ExtractGenres ==
    /\ script = "cluster_analysis_script"
    /\ pc = "analyze_genres"
    /\ genres' = extract_genres(genre_str)
    /\ pc' = "done"
    /\ UNCHANGED <<genre_str, roiVars, profits, rerunVars, script, env, stdin, OMDB_API_KEY,
                   TMDB_API_KEY, reqs, tabVars, tiagoVars>>

-----------------------------------------------------------------------------
(* The analysis scripts: ROI                                               *)

\* A float: a number n/d in lowest terms, nan, inf or -inf.  NoFloat is
\* Python's None, and the place of a row no value was appended for.
RECURSIVE gcd(_, _)
gcd(a, b) == IF b = 0 THEN a ELSE gcd(b, a % b)
abs(x) == IF x < 0 THEN -x ELSE x

Num(n, d) ==
    LET sgn == IF d < 0 THEN -1 ELSE 1
        g == gcd(abs(n), abs(d))
    IN  [k |-> "num", n |-> (sgn * n) \div g, d |-> (sgn * d) \div g]
float_nan == [k |-> "nan", n |-> 0, d |-> 1]
float_inf == [k |-> "inf", n |-> 0, d |-> 1]
float_neg_inf == [k |-> "-inf", n |-> 0, d |-> 1]
NoFloat == [k |-> "None", n |-> 0, d |-> 1]
ZeroDivisionError == [k |-> "ZeroDivisionError", n |-> 0, d |-> 1]

is_inf(a) == a.k \in {"inf", "-inf"}
sign(a) == CASE a.k = "inf" -> 1
             [] a.k = "-inf" -> -1
             [] OTHER -> IF a.n > 0 THEN 1 ELSE IF a.n < 0 THEN -1 ELSE 0
signed_inf(sgn) == IF sgn < 0 THEN float_neg_inf ELSE float_inf

\* a + b, a - b, a * b of IEEE floats
float_add(a, b) ==
    IF a.k = "nan" \/ b.k = "nan" THEN float_nan
    ELSE IF is_inf(a) /\ is_inf(b) THEN (IF a.k = b.k THEN a ELSE float_nan)
    ELSE IF is_inf(a) THEN a
    ELSE IF is_inf(b) THEN b
    ELSE Num(a.n * b.d + b.n * a.d, a.d * b.d)

float_neg(a) ==
    CASE a.k = "inf" -> float_neg_inf
      [] a.k = "-inf" -> float_inf
      [] a.k = "num" -> Num(-a.n, a.d)
      [] OTHER -> a

float_sub(a, b) == float_add(a, float_neg(b))

float_mul(a, b) ==
    IF a.k = "nan" \/ b.k = "nan" THEN float_nan
    ELSE IF is_inf(a) \/ is_inf(b)
         THEN (IF sign(a) * sign(b) = 0 THEN float_nan ELSE signed_inf(sign(a) * sign(b)))
    ELSE Num(a.n * b.n, a.d * b.d)

\* a / b as numpy divides a float column: no exception, x/0 is inf, -inf or nan
numpy_truediv(a, b) ==
    IF a.k = "nan" \/ b.k = "nan" THEN float_nan
    ELSE IF is_inf(b) THEN (IF is_inf(a) THEN float_nan ELSE Num(0, 1))
    ELSE IF b.n = 0 THEN (IF sign(a) = 0 THEN float_nan ELSE signed_inf(sign(a)))
    ELSE IF is_inf(a) THEN signed_inf(sign(a) * sign(b))
    ELSE Num(a.n * b.d, a.d * b.n)

\* a / b of two Python floats: division by zero raises
float_truediv(a, b) ==
    IF b.k = "num" /\ b.n = 0 THEN ZeroDivisionError ELSE numpy_truediv(a, b)

\* The text of a cell.  The cells of the model are the empty cell, decimal
\* numerals and a text that is no number.
Digits == {"0", "1", "2", "3", "4", "5", "6", "7", "8", "9"}
digit_value(c) == CHOOSE v \in 0..9 : Digit(v) = c
RECURSIVE int(_)
int(text) ==
    IF Len(text) = 1 THEN digit_value(text[1])
    ELSE 10 * int(SubSeq(text, 1, Len(text) - 1)) + digit_value(text[Len(text)])
is_numeral(text) == text # <<>> /\ \A i \in 1..Len(text) : text[i] \in Digits

BudgetCells == {<<>>, <<"0">>, <<"5", "0">>, <<"1", "0", "0">>, <<"N", "/", "A">>}
RevenueCells == {<<>>, <<"0">>, <<"1", "0", "0">>, <<"3", "0", "0">>}
Rows == [budget : BudgetCells, revenue : RevenueCells]
Tables == SeqsUpTo(Rows, MaxRows)

\* float(value), None on ValueError / TypeError
convert_to_numeric(value) ==
    IF is_numeral(value) THEN Num(int(value), 1) ELSE NoFloat

\* pd.to_numeric(df[col], errors='coerce'), one cell
to_numeric(value) ==
    IF is_numeral(value) THEN Num(int(value), 1) ELSE float_nan

\* bool(x) of a float or None
float_truthy(x) ==
    CASE x.k = "None" -> FALSE
      [] x.k = "num" -> x.n # 0
      [] OTHER -> TRUE
\* x > 0
float_positive(x) == x.k = "inf" \/ (x.k = "num" /\ x.n > 0)

RECURSIVE float_sum(_)
float_sum(xs) == IF xs = <<>> THEN Num(0, 1) ELSE float_add(Head(xs), float_sum(Tail(xs)))

not_nan(x) == x.k # "nan"
appended(x) == x.k # "None"
NoMean == [value |-> NoFloat, of |-> {}]

\* cluster_analysis_script: df['roi'] = (df['profit'] / df['budget']) * 100
pandas_roi(row) ==
    LET budget == to_numeric(row.budget)
        revenue == to_numeric(row.revenue)
        profit == float_sub(revenue, budget)
    IN  float_mul(numpy_truediv(profit, budget), Num(100, 1))

\* Series.mean(): nan is skipped, inf is not
pandas_mean(column) ==
    LET values == SelectSeq(column, not_nan)
    IN  [value |-> IF values = <<>> THEN float_nan
                   ELSE numpy_truediv(float_sum(values), Num(Len(values), 1)),
         of |-> {i \in 1..Len(column) : not_nan(column[i])}]

\* if budget and revenue and budget > 0
guard(budget, revenue) ==
    float_truthy(budget) /\ float_truthy(revenue) /\ float_positive(budget)

\* simple_cluster_analysis / create_graphs: the body of the row loop; NoFloat
\* when nothing is appended to 'rois'
python_roi(row) ==
    LET budget == convert_to_numeric(row.budget)
        revenue == convert_to_numeric(row.revenue)
    IN  IF guard(budget, revenue)
        THEN LET profit == float_sub(revenue, budget)
                 ratio == float_truediv(profit, budget)
             IN  IF ratio = ZeroDivisionError THEN ratio
                 ELSE float_mul(ratio, Num(100, 1))
        ELSE NoFloat

\* statistics.mean(stats['rois']) if the list is not empty
statistics_mean(column) ==
    LET values == SelectSeq(column, appended)
    IN  [value |-> IF values = <<>> THEN NoFloat
                   ELSE float_truediv(float_sum(values), Num(Len(values), 1)),
         of |-> {i \in 1..Len(column) : appended(column[i])}]

LoadAndCleanData ==
    /\ script = "cluster_analysis_script"
    /\ pc = "load_and_clean_data"
    /\ roi' = [i \in 1..Len(table) |-> pandas_roi(table[i])]
    /\ pc' = "analyze_financial_performance"
    /\ UNCHANGED <<table, roi_mean, profits, genreVars, rerunVars, script, env, stdin,
                   OMDB_API_KEY, TMDB_API_KEY, reqs, tabVars, tiagoVars>>

ClusterFinancialPerformance ==
    /\ script = "cluster_analysis_script"
    /\ pc = "analyze_financial_performance"
    /\ roi_mean' = pandas_mean(roi)
    /\ pc' = "done"
    /\ UNCHANGED <<table, roi, profits, genreVars, rerunVars, script, env, stdin,
                   OMDB_API_KEY, TMDB_API_KEY, reqs, tabVars, tiagoVars>>

\* The row loop and the averages of simple_cluster_analysis and create_graphs
financial_performance ==
    LET column == [i \in 1..Len(table) |-> python_roi(table[i])]
        raised == \E i \in 1..Len(table) : column[i] = ZeroDivisionError
    IN  /\ roi' = column
        /\ roi_mean' = IF raised THEN NoMean ELSE statistics_mean(column)
        /\ pc' = IF raised THEN "ZeroDivisionError" ELSE "done"
        /\ UNCHANGED <<table, profits, genreVars, rerunVars, script, env, stdin,
                       OMDB_API_KEY, TMDB_API_KEY, reqs, tabVars, tiagoVars>>

SimpleFinancialPerformance ==
    /\ script = "simple_cluster_analysis"
    /\ pc = "analyze_financial_performance"
    /\ financial_performance

CreateMatplotlibGraphs ==
    /\ script = "create_graphs"
    /\ pc = "create_matplotlib_graphs"
    /\ financial_performance

-----------------------------------------------------------------------------
(* The analysis scripts: profit                                            *)

TypeError == [k |-> "TypeError", n |-> 0, d |-> 1]

\* a - b of two Python values: None has no subtraction
python_sub(a, b) ==
    IF a.k = "None" \/ b.k = "None" THEN TypeError ELSE float_sub(a, b)

\* profit = convert_to_numeric(row['revenue']) - convert_to_numeric(row['budget'])
row_profit(row) ==
    python_sub(convert_to_numeric(row.revenue), convert_to_numeric(row.budget))

\* for row in data: profit = ...; the loop ends at the first row that raises
RECURSIVE profit_loop(_)
profit_loop(data) ==
    IF data = <<>> THEN <<>>
    ELSE LET profit == row_profit(Head(data))
         IN  IF profit = TypeError THEN <<profit>>
             ELSE <<profit>> \o profit_loop(Tail(data))

ProfitFunctions == {"analyze_success_rates", "analyze_top_performers", "generate_insights"}

\* One of the functions whose row loop computes the profit of every row
profit_function(name) ==
    LET computed == profit_loop(table)
        raised == computed # <<>> /\ computed[Len(computed)] = TypeError
    IN  /\ pc = name
        /\ profits' = computed
        /\ pc' = IF raised THEN "TypeError" ELSE "done"
        /\ UNCHANGED <<roiVars, genreVars, rerunVars, script, env, stdin,
                       OMDB_API_KEY, TMDB_API_KEY, reqs, tabVars, tiagoVars>>

AnalyzeSuccessRates ==
    script = "simple_cluster_analysis" /\ profit_function("analyze_success_rates")

AnalyzeTopPerformers ==
    script = "simple_cluster_analysis" /\ profit_function("analyze_top_performers")

GenerateInsights ==
    script = "simple_cluster_analysis" /\ profit_function("generate_insights")

CreateTextCharts ==
    script = "create_graphs" /\ profit_function("create_text_charts")

-----------------------------------------------------------------------------
(* The specifications                                                      *)

Init ==
    /\ script \in Scripts
    /\ env \in [{"OMDB_API_KEY", "TMDB_API_KEY"} -> KeyValues]
    /\ stdin \in Inputs
    /\ script = "tiago" => stdin = <<>>
    /\ script = "tiago" => env = [k \in {"OMDB_API_KEY", "TMDB_API_KEY"} |-> Unset]
    /\ pc = "import"
    /\ OMDB_API_KEY = Unset
    /\ TMDB_API_KEY = Unset
    /\ iterations = 0
    /\ out = <<>>
    /\ ids = <<>>
    /\ idx = 1
    /\ real_id = PyNone
    /\ reqs = <<>>
    /\ page = 1
    /\ results = <<>>
    /\ midx = 1
    /\ tmdb_details = NoBody
    /\ movie_counter = 1
    /\ folder = FALSE
    /\ files = <<>>
    /\ written = <<>>
    /\ summary = Unreported
    /\ pauses = 0
    /\ run = 1
    /\ prev = [out |-> <<>>, reqs |-> <<>>, files |-> <<>>]
    /\ genre_str = NaN
    /\ genres = Unreturned
    /\ table = <<>>
    /\ roi = <<>>
    /\ roi_mean = NoMean
    /\ profits = <<>>

Next ==
    \/ Import
    \/ WriteHeader
    \/ ReadStdin
    \/ LoopEnd
    \/ OmdbIteration
    \/ FindIteration
    \/ TmdbResolve
    \/ TmdbDetail
    \/ TiagoImport
    \/ TiagoPage
    \/ TiagoMovie
    \/ TiagoOmdb
    \/ TiagoDone
    \/ Rerun
    \/ TiagoRerun

Spec == Init /\ [][Next]_vars

\* The analysis scripts read a table and no environment, stdin or network:
\* a run applies one of their functions to one input.
AnalysisInit ==
    /\ \/ /\ script = "cluster_analysis_script"
          /\ pc = "analyze_genres"
          /\ genre_str \in GenreCells
          /\ table = <<>>
       \/ /\ \/ script = "cluster_analysis_script" /\ pc = "load_and_clean_data"
             \/ script = "simple_cluster_analysis" /\ pc = "analyze_financial_performance"
             \/ script = "create_graphs" /\ pc = "create_matplotlib_graphs"
             \/ script = "simple_cluster_analysis" /\ pc \in ProfitFunctions
             \/ script = "create_graphs" /\ pc = "create_text_charts"
          /\ genre_str = NaN
          /\ table \in Tables
    /\ genres = Unreturned
    /\ roi = <<>>
    /\ roi_mean = NoMean
    /\ profits = <<>>
    /\ env = [k \in {"OMDB_API_KEY", "TMDB_API_KEY"} |-> Unset]
    /\ stdin = <<>>
    /\ OMDB_API_KEY = Unset
    /\ TMDB_API_KEY = Unset
    /\ iterations = 0
    /\ out = <<>>
    /\ ids = <<>>
    /\ idx = 1
    /\ real_id = PyNone
    /\ reqs = <<>>
    /\ page = 1
    /\ results = <<>>
    /\ midx = 1
    /\ tmdb_details = NoBody
    /\ movie_counter = 1
    /\ folder = FALSE
    /\ files = <<>>
    /\ written = <<>>
    /\ summary = Unreported
    /\ pauses = 0
    /\ run = 1
    /\ prev = [out |-> <<>>, reqs |-> <<>>, files |-> <<>>]

AnalysisNext ==
    \/ ExtractGenres
    \/ LoadAndCleanData
    \/ ClusterFinancialPerformance
    \/ SimpleFinancialPerformance
    \/ CreateMatplotlibGraphs
    \/ AnalyzeSuccessRates
    \/ AnalyzeTopPerformers
    \/ GenerateInsights
    \/ CreateTextCharts

AnalysisSpec == AnalysisInit /\ [][AnalysisNext]_vars

-----------------------------------------------------------------------------
(* Vocabulary of the properties                                            *)

Ok(q) == q.answer.status = 200
TransportError(q) == q.answer.status # 200
Found(q) == q.endpoint = "find" /\ Ok(q) /\ q.answer.body.results # <<>>
NotFound(q) == q.endpoint = "find" /\ Ok(q) /\ q.answer.body.results = <<>>

\* This step issues one outbound request; Sent is that request with its answer
Sends == Len(reqs') = Len(reqs) + 1
Sent == reqs'[Len(reqs')]

DataRows == IF out = <<>> THEN <<>> ELSE Tail(out)
Ended == pc \in {"done", "returned", "ValueError", "IndexError", "NameError"}
HeaderRows == { <<TextCell(<<"id">>), TextCell(<<"response">>)>>,
                <<TextCell(<<"imdb_id">>), TextCell(<<"tmdb_id">>)>> }

\* An item of omdb_to_csv / tmdb_id_from_imdb is processed successfully when
\* its request is answered 200 and, for the find lookup, names a candidate
Successful(q) == Ok(q) /\ (q.endpoint = "find" => q.answer.body.results # <<>>)

-----------------------------------------------------------------------------
C2_Step ==
    script \in TabularScripts =>
        /\ pc = "returned" => run' # run
        /\ (Sends /\ TransportError(Sent)) =>
              (out' = out /\ pc' = "returned" /\ idx' = idx)

C3_Step ==
    (script = "tmdb_id_from_imdb" /\ Sends /\ NotFound(Sent)) =>
        (out' = out /\ pc' = "loop" /\ idx' = idx + 1)

C3_NotFoundSkipsAndContinues == [][C3_Step]_vars

C3_Witness ==
    /\ script = "tmdb_id_from_imdb"
    /\ Len(reqs) = 3
    /\ NotFound(reqs[1])
    /\ Found(reqs[2])
    /\ NotFound(reqs[3])
    /\ Len(out) = 2
    /\ pc = "done"

(* C4: in tmdb_to_csv, the run on the single identifier tt0111161 whose     *)
(* find lookup answers with the one candidate 278 and whose detail request  *)
(* answers 200 ends with exactly one data row, which carries tt0111161 and  *)
(* the detail payload of movie 278.                                         *)
C4_EndToEndRow ==
    ( /\ script = "tmdb_to_csv"
      /\ ids = << <<"tt0111161">> >>
      /\ Ended
      /\ Len(reqs) = 2
      /\ Ok(reqs[1]) /\ reqs[1].answer.body.results = <<278>>
      /\ Ok(reqs[2]) )
    => /\ Len(DataRows) = 1
       /\ DataRows[1][1] = TextCell(<<"tt0111161">>)
       /\ DataRows[1][2] = JsonCell(reqs[2].answer.body)
       /\ reqs[2].answer.body.id = 278
       /\ pc = "done"

(* C5: in tmdb_to_csv, after a find lookup answered 200 with an empty       *)
(* movie_results the item is skipped and the run goes on with the next      *)
(* identifier: it has neither returned nor raised.                          *)
C5_NotFoundSkipsInTmdbToCsv ==
    ( /\ script = "tmdb_to_csv"
      /\ reqs # <<>>
      /\ NotFound(reqs[Len(reqs)]) )
    => /\ pc \in {"loop", "done"}
       /\ idx = reqs[Len(reqs)].item + 1

(* C6: in tmdb_id_from_imdb, the resolver gives answers of different kinds *)
(* (found, NotFound, TransportError) different values, and main maps a      *)
(* found id to one written row, NotFound to skip-and-continue and           *)
(* TransportError to the end of the run, never one for the other.           *)
C6_Kind(r) ==
    IF r.status # 200 THEN "TransportError"
    ELSE IF r.body.results = <<>> THEN "NotFound" ELSE "Found"

C6_Step ==
    (script = "tmdb_id_from_imdb" /\ Sends) =>
        /\ \A r \in FindAnswers :
              C6_Kind(r) # C6_Kind(Sent.answer) =>
                  get_movie_id_from_imdb(r) # get_movie_id_from_imdb(Sent.answer)
        /\ Found(Sent) => (Len(out') = Len(out) + 1 /\ pc' = "loop" /\ idx' = idx + 1)
        /\ NotFound(Sent) => (out' = out /\ pc' = "loop" /\ idx' = idx + 1)
        /\ TransportError(Sent) => (out' = out /\ pc' = "returned" /\ idx' = idx)

C6_ThreeOutcomesThreePolicies == [][C6_Step]_vars

C6_Witness ==
    /\ script = "tmdb_id_from_imdb"
    /\ Len(reqs) = 3
    /\ Found(reqs[1])
    /\ NotFound(reqs[2])
    /\ TransportError(reqs[3])
    /\ pc = "returned"
    /\ Len(out) = 2

(* C7: a find lookup answered 200 with one or more candidates resolves to   *)
(* the id of the first candidate, whatever follows it: in tmdb_id_from_imdb *)
(* the row written for the item is the input identifier with that id, in    *)
(* tmdb_to_csv that id is the one the detail request is made for.           *)
C7_Step ==
    (Sends /\ Found(Sent)) =>
        LET first == Sent.answer.body.results[1]
        IN  /\ script = "tmdb_id_from_imdb" =>
                  out' = Append(out, <<TextCell(Sent.arg.s), TextCell(str(first))>>)
            /\ script = "tmdb_to_csv" => (pc' = "detail" /\ real_id' = PyInt(first))

C7_FirstCandidate == [][C7_Step]_vars

C7_Witness ==
    /\ script = "tmdb_id_from_imdb"
    /\ Len(reqs) = 1
    /\ reqs[1].answer.body.results = <<550, 278>>
    /\ Len(out) = 2
    /\ out[2] = <<TextCell(ids[1]), TextCell(<<"5", "5", "0">>)>>

(* C8: in the three tabular scripts, once main has started the output       *)
(* begins with the header row and holds no other header row, and before     *)
(* that nothing is written and no request is made; so the header comes      *)
(* first and once also for empty input, for a run that ends on its first    *)
(* item and for a run that skips every item.                                *)
C8_HeaderOnceAndFirst ==
    script \in TabularScripts =>
        IF pc \in {"import", "ValueError", "main"}
        THEN out = <<>> /\ reqs = <<>>
        ELSE /\ out # <<>>
             /\ out[1] \in HeaderRows
             /\ \A i \in 2..Len(out) : out[i] \notin HeaderRows

C8_Witness ==
    /\ script = "tmdb_id_from_imdb"
    /\ pc = "done"
    /\ Len(reqs) = 2
    /\ \A i \in 1..2 : NotFound(reqs[i])
    /\ out = <<header(script)>>

(* C9: in the three tabular scripts, the identifiers main processes are the *)
(* input lines that hold something other than whitespace, each with its     *)
(* leading and trailing whitespace removed, in input order and with         *)
(* duplicates kept; the k-th item requested is the k-th of them.            *)
C9_Blank(line) == \A i \in 1..Len(line) : line[i] \in Whitespace

C9_IsTrimOf(t, line) ==
    \E a, b \in 1..Len(line) :
        /\ a <= b
        /\ t = SubSeq(line, a, b)
        /\ line[a] \notin Whitespace
        /\ line[b] \notin Whitespace
        /\ \A i \in 1..(a - 1) : line[i] \in Whitespace
        /\ \A i \in (b + 1)..Len(line) : line[i] \in Whitespace

C9_IdsAreTrimmedNonBlankLines ==
    (script \in TabularScripts /\ pc \notin {"import", "ValueError", "main", "read"}) =>
        LET kept == {j \in 1..Len(stdin) : ~C9_Blank(stdin[j])}
        IN  /\ Len(ids) = Cardinality(kept)
            /\ \A j \in kept :
                  C9_IsTrimOf(ids[Cardinality({i \in kept : i <= j})], stdin[j])
            /\ \A i \in 1..Len(reqs) :
                  reqs[i].endpoint \in {"find", "detail"} =>
                      reqs[i].arg = PyStr(ids[reqs[i].item])
            /\ pc = "done" => Len(reqs) = Len(ids)

C9_Witness ==
    /\ script = "omdb_to_csv"
    /\ pc = "done"
    /\ stdin = << <<" ", "tt0068646", "\t", "\n">>, <<" ", "\n">>, <<"tt0111161">> >>
    /\ ids = << <<"tt0068646">>, <<"tt0111161">> >>
    /\ Len(out) = 3

(* C10: in every ingestion script, when the API key of the upstream the     *)
(* script calls is absent or empty, the run makes no request and produces   *)
(* no output: no header row, no file, no output directory.                  *)
C10_KeyMissing ==
    CASE script = "omdb_to_csv" -> env["OMDB_API_KEY"] \in {Unset, ""}
      [] script = "tmdb_id_from_imdb" -> env["TMDB_API_KEY"] \in {Unset, ""}
      [] script = "tmdb_to_csv" -> env["TMDB_API_KEY"] \in {Unset, ""}
      [] script = "tiago" -> not_key(TMDB_API_KEY) \/ not_key(OMDB_API_KEY)

C10_NoRunWithoutCredential ==
    C10_KeyMissing =>
        /\ reqs = <<>>
        /\ out = <<>>
        /\ ~folder
        /\ files = <<>>

-----------------------------------------------------------------------------
(* Vocabulary of the properties about tiago.py                             *)

Last(q) == q[Len(q)]
IsPopular(q) == q.endpoint = "popular"
IsMovie(q) == q.endpoint = "movie"
IsOmdb(q) == q.host = "omdb"
\* A catalog B answer that is a record of the title: 200 and not Response False
OmdbHit(q) == IsOmdb(q) /\ Ok(q) /\ q.answer.body.Response # "False"
\* The positions in the log of the items tiago.py merged, and the k-th of them
Merged == {i \in 1..Len(reqs) : OmdbHit(reqs[i])}
Rank(S, i) == Cardinality({j \in S : j <= i})
\* The numbers of the files this run wrote
FileNumbers == {written[i] : i \in 1..Len(written)}

(* C11: in tiago.py, every catalog B request follows directly the catalog   *)
(* A detail request of the same item, which was answered 200 with a         *)
(* non-empty imdb_id, and asks for that imdb_id; and the files written are  *)
(* as many as the items whose catalog B request was answered 200 without    *)
(* Response False, each file holding the two payloads of one such item.     *)
C11_FileOnlyFromBothPayloads ==
    script = "tiago" =>
        /\ \A i \in 1..Len(reqs) :
              IsOmdb(reqs[i]) =>
                  /\ i > 1
                  /\ IsMovie(reqs[i - 1])
                  /\ Ok(reqs[i - 1])
                  /\ reqs[i - 1].answer.body.imdb_id # <<>>
                  /\ reqs[i].arg = PyStr(reqs[i - 1].answer.body.imdb_id)
                  /\ reqs[i].item = reqs[i - 1].item
                  /\ reqs[i].page = reqs[i - 1].page
        /\ Cardinality(FileNumbers) = Cardinality(Merged)
        /\ \A k \in FileNumbers :
              \E i \in Merged :
                  files[k] = [tmdb |-> reqs[i - 1].answer.body,
                              omdb |-> reqs[i].answer.body]

C11_Witness ==
    /\ script = "tiago"
    /\ pc = "done"
    /\ Cardinality(FileNumbers) = 1
    /\ \E i \in 1..Len(reqs) : IsOmdb(reqs[i]) /\ TransportError(reqs[i])
    /\ \E i \in 1..Len(reqs) : IsOmdb(reqs[i]) /\ Ok(reqs[i]) /\ ~OmdbHit(reqs[i])
    /\ \E i \in 1..Len(reqs) : IsMovie(reqs[i]) /\ TransportError(reqs[i])

(* C12: when catalog B answers 200 with Response False, no output record is *)
(* written for the item and the run goes on with the next item, in          *)
(* omdb_to_csv as in tiago.py: the records written are as many as the       *)
(* catalog B answers that are 200 without Response False, and after a       *)
(* Response False answer the run is still in its loop or has finished it.   *)
C12_ResponseFalseSkips ==
    script \in {"omdb_to_csv", "tiago"} =>
        /\ Cardinality(Merged) =
              IF script = "tiago" THEN Cardinality(FileNumbers) ELSE Len(DataRows)
        /\ (reqs # <<>> /\ IsOmdb(Last(reqs)) /\ Ok(Last(reqs)) /\ ~OmdbHit(Last(reqs)))
              => pc \in {"loop", "page", "movie", "done"}

(* C13: in tiago.py, a popular-page request answered with a non-200 status  *)
(* is the last request of the run: no later page is requested and no item   *)
(* is fetched after it.                                                     *)
C13_PageFailureStopsSource ==
    script = "tiago" =>
        \A i \in 1..Len(reqs) :
            (IsPopular(reqs[i]) /\ TransportError(reqs[i])) => i = Len(reqs)

(* C13 as amended: in tiago.py, a step whose popular-page request is        *)
(* answered with a non-200 status fetches and writes nothing for that page  *)
(* and moves the page loop to the next page; no item request ever carries   *)
(* the number of a failed page.                                             *)
C13_Step ==
    (script = "tiago" /\ Sends /\ IsPopular(Sent) /\ TransportError(Sent)) =>
        /\ pc' = "page"
        /\ page' = page + 1
        /\ UNCHANGED <<files, movie_counter, results>>
        /\ \A i \in 1..Len(reqs') :
              reqs'[i].page = Sent.page => i = Len(reqs')

C13_PageFailureSkipsPage == [][C13_Step]_vars

C13_Witness ==
    /\ script = "tiago"
    /\ pc = "done"
    /\ Len(reqs) >= 3
    /\ IsPopular(reqs[1]) /\ TransportError(reqs[1])
    /\ IsPopular(reqs[2]) /\ Ok(reqs[2])
    /\ Cardinality(FileNumbers) >= 1

(* C14: in tiago.py, the k-th page request is for page k and k is at most   *)
(* pages_to_fetch, so pages are requested in increasing order from 1, each  *)
(* once; after a page answered 200 with no results the run is at the next   *)
(* page with nothing written for it; and the run is never stuck before its  *)
(* final summary.                                                           *)
C14_PagesInOrder ==
    script = "tiago" =>
        LET pages == SelectSeq(reqs, IsPopular)
        IN  /\ \A k \in 1..Len(pages) : pages[k].arg = PyInt(k) /\ k <= pages_to_fetch
            /\ (reqs # <<>> /\ IsPopular(Last(reqs)) /\ Ok(Last(reqs))
                   /\ Last(reqs).answer.body.results = <<>>)
                  => /\ pc \in {"page", "done"}
                     /\ page = Last(reqs).page + 1
            /\ pc # "done" => ENABLED Next
            /\ pc = "done" => Len(pages) = pages_to_fetch

C14_Witness ==
    /\ script = "tiago"
    /\ pc = "done"
    /\ Len(reqs) = pages_to_fetch
    /\ \A i \in 1..Len(reqs) : Ok(reqs[i]) /\ reqs[i].answer.body.results = <<>>

(* C15: in every ingestion script, every request made after a record was    *)
(* written comes after a pacing pause: when the last request was made, as   *)
(* many pauses had been taken as records had been written before it.        *)
C15_Records == IF script = "tiago" THEN Cardinality(FileNumbers) ELSE Len(DataRows)

C15_WroteOnLast ==
    IF script = "tiago" THEN OmdbHit(Last(reqs)) /\ pc # "omdb"
    ELSE IF script = "tmdb_to_csv" THEN FALSE
    ELSE Successful(Last(reqs))

C15_PauseBetweenItems ==
    reqs # <<>> =>
        pauses >= C15_Records - (IF C15_WroteOnLast THEN 1 ELSE 0)

(* C16: in tiago.py, the files written are movie_1 .. movie_(counter-1)     *)
(* with the counter starting at 1, and file k holds the k-th item merged,   *)
(* in processing order.                                                     *)
C16_CounterNamesFilesInOrder ==
    script = "tiago" =>
        /\ movie_counter = 1 + Cardinality(Merged)
        /\ FileNumbers = 1..(movie_counter - 1)
        /\ \A i \in Merged :
              files[Rank(Merged, i)] = [tmdb |-> reqs[i - 1].answer.body,
                                        omdb |-> reqs[i].answer.body]

C16_Witness ==
    /\ script = "tiago"
    /\ pc = "done"
    /\ movie_counter = 4
    /\ files[1].tmdb.id = 278
    /\ files[2].tmdb.id = 550
    /\ \E i \in 1..Len(reqs) : IsOmdb(reqs[i]) /\ ~OmdbHit(reqs[i])

(* C17: a second run of omdb_to_csv or tmdb_id_from_imdb on the same lines,  *)
(* with the upstream answering each request as in the first run, writes     *)
(* the same output as the first: at every point its output is a prefix of   *)
(* the first run's, and when it ends the two are equal, header and rows.    *)
C17_IsPrefix(s, t) ==
    Len(s) <= Len(t) /\ \A i \in 1..Len(s) : s[i] = t[i]

C19_Quoted(name) == <<"'", name, "'">>

RECURSIVE C19_Items(_)
C19_Items(names) ==
    IF Len(names) = 1 THEN C19_Quoted(names[1])
    ELSE C19_Quoted(names[1]) \o <<",", " ">> \o C19_Items(Tail(names))

C19_Encoding(names) ==
    IF names = <<>> THEN <<"[", "]">> ELSE <<"[">> \o C19_Items(names) \o <<"]">>

C19_Names == SeqsUpTo({"Action", "Drama"}, 2)

C19_Encoded(s) == \E names \in C19_Names : s = C19_Encoding(names)

C19_GenresDecodedOrEmpty ==
    (script = "cluster_analysis_script" /\ pc = "done") =>
        /\ genres.t = "list"
        /\ genre_str = Text(C19_Encoding(<<"Action", "Drama">>)) =>
              genres.v = << <<"Action">>, <<"Drama">> >>
        /\ genre_str.t = "nan" => genres.v = <<>>
        /\ (genre_str.t = "str" /\ ~C19_Encoded(genre_str.s)) => genres.v = <<>>

(* C20: in cluster_analysis_script, simple_cluster_analysis and             *)
(* create_graphs, a row whose budget cell is empty or zero gets no ROI: the *)
(* value derived for it is absent (never infinite), deriving it raises no   *)
(* exception, and the row is not among those the ROI average is taken of.   *)
C20_RoiScripts == {"cluster_analysis_script", "simple_cluster_analysis", "create_graphs"}

C20_NoBudget(r) == r.budget = <<>> \/ r.budget = <<"0">>

C20_RoiDerived == Len(roi) = Len(table)

C20_NoRoiWithoutBudget ==
    (script \in C20_RoiScripts /\ table # <<>>) =>
        /\ pc # "ZeroDivisionError"
        /\ C20_RoiDerived =>
              \A i \in 1..Len(table) :
                  C20_NoBudget(table[i]) =>
                      /\ roi[i].k \in {"None", "nan"}
                      /\ i \notin roi_mean.of

(* C21: in simple_cluster_analysis and create_graphs, a budget or revenue   *)
(* cell that is no number becomes absent and nothing raises: whatever mix   *)
(* of parseable and unparseable cells the rows hold, convert_to_numeric     *)
(* returns a number or None and no function that computes a profit from its *)
(* results ends in an exception.                                            *)
C21_Unparseable(cell) == cell = <<>> \/ \E i \in 1..Len(cell) : cell[i] \notin Digits

C21_UnparseableNeverFatal ==
    script \in {"simple_cluster_analysis", "create_graphs"} =>
        /\ \A i \in 1..Len(table) :
              /\ C21_Unparseable(table[i].budget) =>
                    convert_to_numeric(table[i].budget) = NoFloat
              /\ C21_Unparseable(table[i].revenue) =>
                    convert_to_numeric(table[i].revenue) = NoFloat
        /\ pc \notin {"TypeError", "ValueError", "ZeroDivisionError"}

(* C22: every run in which each request is answered ends: every step uses   *)
(* up a finite budget, so no state repeats; a run that is not over can take *)
(* a step; a tabular script that passed its credential check ends either    *)
(* with every identifier processed or at its first failed request;          *)
(* tiago.py makes at most pages_to_fetch page requests; and no item is      *)
(* requested twice from the same endpoint.                                  *)
C22_MostResults ==
    CHOOSE n \in {Len(a.body.results) : a \in PopularAnswers} :
        \A a \in PopularAnswers : Len(a.body.results) <= n

C22_PageBudget == 2 * C22_MostResults + 1

C22_TabularBudget ==
    CASE pc = "import" -> 3 * Len(stdin) + 5
      [] pc = "main" -> 3 * Len(stdin) + 4
      [] pc = "read" -> 3 * Len(stdin) + 3
      [] pc = "loop" -> 3 * (Len(ids) - idx + 1) + 1
      [] pc = "detail" -> 3 * (Len(ids) - idx + 1)
      [] OTHER -> 0

C22_TiagoBudget ==
    CASE pc = "import" -> pages_to_fetch * C22_PageBudget + 2
      [] pc = "page" -> (pages_to_fetch - page + 1) * C22_PageBudget + 1
      [] pc = "movie" -> (pages_to_fetch - page) * C22_PageBudget + 1
                            + 2 * (Len(results) - midx + 1)
      [] pc = "omdb" -> (pages_to_fetch - page) * C22_PageBudget
                            + 2 * (Len(results) - midx + 1)
      [] OTHER -> 0

C22_Budget ==
    IF script = "tiago"
    THEN (2 - run) * (pages_to_fetch * C22_PageBudget + 3) + C22_TiagoBudget
    ELSE (2 - run) * (3 * Len(stdin) + 6) + C22_TabularBudget

C22_Over ==
    /\ script \in TabularScripts =>
          \/ pc = "ValueError" /\ reqs = <<>>
          \/ pc = "done" /\ idx > Len(ids)
          \/ /\ pc = "returned"
             /\ reqs # <<>>
             /\ \A i \in 1..Len(reqs) : TransportError(reqs[i]) <=> i = Len(reqs)
    /\ script = "tiago" => pc = "done"

C22_State ==
    /\ C22_Budget >= 0
    /\ C22_Budget = 0 => C22_Over
    /\ script = "tiago" => Len(SelectSeq(reqs, IsPopular)) <= pages_to_fetch
    /\ \A i, j \in 1..Len(reqs) :
          (i < j /\ reqs[i].endpoint = reqs[j].endpoint) =>
              <<reqs[i].page, reqs[i].item>> # <<reqs[j].page, reqs[j].item>>

C22_Step ==
    script \in Scripts => (C22_Budget' < C22_Budget /\ C22_State')

C22_EveryRunEnds == [][C22_Step]_vars

(* C23: a second run of tiago.py starts its counter at 1 again and takes no *)
(* notice of the files of the first: it writes movie_1 .. movie_n for the   *)
(* n items it has merged, each holding that item whatever the file held     *)
(* before, and every file of the first run with a number above n is there   *)
(* unchanged.                                                               *)
C23_SecondRunOverwrites ==
    (script = "tiago" /\ run = 2) =>
        LET n == Cardinality(Merged)
        IN  /\ movie_counter = n + 1
            /\ written = [k \in 1..n |-> k]
            /\ \A i \in Merged :
                  files[Rank(Merged, i)] = [tmdb |-> reqs[i - 1].answer.body,
                                            omdb |-> reqs[i].answer.body]
            /\ DOMAIN files = DOMAIN prev.files \cup 1..n
            /\ \A k \in DOMAIN prev.files : k > n => files[k] = prev.files[k]

C23_Witness ==
    /\ script = "tiago"
    /\ run = 2
    /\ pc = "done"
    /\ Cardinality(Merged) = 1
    /\ Len(prev.files) = 2
    /\ files[1] # prev.files[1]
    /\ files[2] = prev.files[2]

(* C24: in tiago.py, at every point of a run the counter less one is the    *)
(* number of files the run has written so far, and the number in the final  *)
(* message is the number of files the run wrote, whatever items and pages   *)
(* failed or were skipped.                                                  *)
C24_CounterCountsFiles ==
    script = "tiago" =>
        /\ movie_counter - 1 = Len(written)
        /\ Cardinality(FileNumbers) = Len(written)
        /\ FileNumbers \subseteq DOMAIN files
        /\ pc = "done" => summary = Cardinality(FileNumbers)
        /\ pc # "done" => summary = Unreported

C24_Witness ==
    /\ script = "tiago"
    /\ pc = "done"
    /\ summary = 1
    /\ \E i \in 1..Len(reqs) : IsPopular(reqs[i]) /\ TransportError(reqs[i])
    /\ \E i \in 1..Len(reqs) : IsMovie(reqs[i]) /\ Ok(reqs[i]) /\ reqs[i].answer.body.imdb_id = <<>>
    /\ \E i \in 1..Len(reqs) : OmdbHit(reqs[i])

(* C25: in tiago.py, a step that skips an item (catalog A detail failed or   *)
(* without imdb_id, catalog B failed or answered Response False) changes     *)
(* neither the counter nor the files, and the run goes on with the next     *)
(* item of the page, or with the next page after the last item; so the      *)
(* items of every page are requested in their order, and when the run is    *)
(* over every item of every page has been requested.                        *)
C25_Skipped(q) ==
    \/ IsMovie(q) /\ (TransportError(q) \/ q.answer.body.imdb_id = <<>>)
    \/ IsOmdb(q) /\ ~OmdbHit(q)

C25_ItemsOf(q) == q.answer.body.results

C25_AllInOrder ==
    /\ \A i, j \in 1..Len(reqs) :
          (i < j /\ IsMovie(reqs[i]) /\ IsMovie(reqs[j])) =>
              \/ reqs[i].page < reqs[j].page
              \/ reqs[i].page = reqs[j].page /\ reqs[i].item < reqs[j].item
    /\ pc = "done" =>
          \A i \in 1..Len(reqs) :
              (IsPopular(reqs[i]) /\ Ok(reqs[i])) =>
                  \A m \in 1..Len(C25_ItemsOf(reqs[i])) :
                      \E j \in 1..Len(reqs) :
                          /\ j > i
                          /\ IsMovie(reqs[j])
                          /\ reqs[j].page = reqs[i].page
                          /\ reqs[j].item = m
                          /\ reqs[j].arg = PyInt(C25_ItemsOf(reqs[i])[m])

C25_Step ==
    script = "tiago" =>
        /\ (Sends /\ C25_Skipped(Sent)) =>
              /\ UNCHANGED <<movie_counter, files, written>>
              /\ IF midx < Len(results)
                 THEN pc' = "movie" /\ midx' = midx + 1 /\ page' = page
                 ELSE pc' = "page" /\ page' = page + 1
        /\ C25_AllInOrder'

C25_SkipLeavesCounterAndGoesOn == [][C25_Step]_vars

C25_Witness ==
    /\ script = "tiago"
    /\ pc = "done"
    /\ Len(written) = 2
    /\ \E i \in 1..Len(reqs) : C25_Skipped(reqs[i]) /\ IsMovie(reqs[i]) /\ Ok(reqs[i])
    /\ \E i \in 1..Len(reqs) : C25_Skipped(reqs[i]) /\ IsOmdb(reqs[i]) /\ Ok(reqs[i])
    /\ \E i, j \in 1..Len(reqs) :
          /\ i < j
          /\ C25_Skipped(reqs[i])
          /\ OmdbHit(reqs[j])
          /\ reqs[j].page = reqs[i].page
    /\ \E i, j \in 1..Len(reqs) :
          /\ i < j
          /\ C25_Skipped(reqs[i])
          /\ OmdbHit(reqs[j])
          /\ reqs[j].page > reqs[i].page

(* C18: in tiago.py, no non-200 answer is swallowed: every step whose       *)
(* request is answered with a non-200 status advances a counter of the      *)
(* program.                                                                 *)
C18_Step ==
    (script = "tiago" /\ Sends /\ TransportError(Sent)) =>
        (movie_counter' # movie_counter \/ iterations' # iterations)

C18_FailuresAreCounted == [][C18_Step]_vars

====
